---------------------------- MODULE Spec2Model ----------------------------
(***************************************************************************)
(* A model of the key-retrieval task generator:                            *)
(*   - the parallel job dispatcher   (src/generate_data.py)                *)
(*   - the configuration enumerator  (src/generate_data.py)                *)
(*   - the two Task Builders         (src/krc.py, src/krfix.py)            *)
(* Python strings are TLA+ strings: Len, \o and SubSeq act on them as the   *)
(* Python operations len, + and slicing do.                                *)
(***************************************************************************)
EXTENDS Naturals, Integers, Sequences, FiniteSets, TLC

VARIABLES
    \* ---- dispatcher (run_tasks_in_parallel) ----
    cpu_count,   \* multiprocessing.cpu_count()
    task_list,   \* the argument lists handed to run_tasks_in_parallel
    pc_main,     \* position of the calling thread
    next_task,   \* index of the next task the for loop submits
    queue,       \* the pool's task queue: indices of submitted, not yet picked jobs
    phase,       \* per job: position of work() for that job
    worker,      \* per job: the pool thread running it (0: none yet)
    outcome,     \* per job: how subprocess.check_call ended
    fh,          \* per job: the two open file objects of its with block
    files,       \* the filesystem under ./logs: path -> bytes on disk
    console      \* the lines click.echo has printed, in order

dvars == <<cpu_count, task_list, pc_main, next_task, queue, phase, worker,
           outcome, fh, files, console>>

VARIABLES
    \* ---- enumerator (the krc / krfix / krfix_one_hop commands) ----
    family,      \* the command being run ("" when none)
    pass,        \* which of the three tasks(generate_*(n)) calls is running
    idx,         \* how many configurations the running generator has yielded
    result,      \* the list tasks() is building
    all_tasks    \* the argument lists collected so far

evars == <<family, pass, idx, result, all_tasks>>

VARIABLES
    \* ---- one Task Builder instance (krc.py or krfix.py) ----
    impl,        \* which class the instance is of: "krc" or "krfix" ("" when none)
    cfg,         \* self.cfg, the configuration
    used_values, \* self.used_values, the registry
    log          \* the calls made on the instance so far, each with how it ended

bvars == <<impl, cfg, used_values, log>>

VARIABLES
    \* ---- one uniquify call of the instance, statement by statement ----
    pc_uniquify, \* "" (no call), "generate", "test" or "returned"
    generator,   \* the generator passed: "random_string" or "random_integer"
    kwargs,      \* its length keyword
    candidate,   \* v, the value the generator returned last
    entry_values \* used_values as it was when the call started

uvars == <<pc_uniquify, generator, kwargs, candidate, entry_values>>

vars == <<dvars, evars, bvars, uvars>>

-----------------------------------------------------------------------------
(* Bounds of the model *)

MaxJobs == 2
MaxCpu == 2
MaxCalls == 3

-----------------------------------------------------------------------------
(* Generic helpers *)

Min(a, b) == IF a < b THEN a ELSE b

RECURSIVE Join(_, _)
\* sep.join(parts)
Join(sep, parts) ==
    IF Len(parts) = 0 THEN ""
    ELSE IF Len(parts) = 1 THEN parts[1]
    ELSE parts[1] \o sep \o Join(sep, Tail(parts))

StartsWith(s, prefix) ==
    /\ Len(s) >= Len(prefix)
    /\ SubSeq(s, 1, Len(prefix)) = prefix

-----------------------------------------------------------------------------
(* Dispatcher: src/generate_data.py, run_tasks_in_parallel *)

\* The argument lists jobs are drawn from.
ArgLists ==
    { <<"krc", "--variant", "one-step", "--seed", "100">>,
      <<"krfix", "--variant", "three-step", "--seed", "348">> }

\* json.dumps of a list of strings that need no escaping
JsonDumps(arguments) ==
    "[" \o Join(", ", [i \in 1..Len(arguments) |-> "\"" \o arguments[i] \o "\""]) \o "]"

\* hashlib.sha1(...).hexdigest(): an uninterpreted injective digest
Sha1Hex(s) == "sha1<" \o s \o ">"

LogKey(arguments) == Sha1Hex(JsonDumps(arguments))
StdoutPath(arguments) == "./logs/" \o LogKey(arguments) \o ".stdout"
StderrPath(arguments) == "./logs/" \o LogKey(arguments) \o ".stderr"

\* what work() writes first to both files
Header(arguments) == JsonDumps(arguments) \o "\n\n"

\* io.DEFAULT_BUFFER_SIZE: open(path, "wb") returns a BufferedWriter
BUFFER_SIZE == 8192

PoolCap == 16

PoolSizeOffByOne == Min(cpu_count, PoolCap) + 1
\* ThreadPool(min(cpu_count(), 16))
PoolSize == Min(cpu_count, PoolCap)

Workers == 1..PoolSize

Jobs == 1..Len(task_list)

RECURSIVE Zeros(_)
\* the bytes a write past the end of a file leaves in the hole
Zeros(n) == IF n = 0 THEN "" ELSE "0" \o Zeros(n - 1)

\* write(2) of data at offset pos of a file holding content
WriteAt(content, pos, data) ==
    LET padded == IF Len(content) < pos
                  THEN content \o Zeros(pos - Len(content))
                  ELSE content
    IN  SubSeq(padded, 1, pos) \o data
          \o SubSeq(padded, pos + Len(data) + 1, Len(padded))

NoFile == [open |-> FALSE, path |-> "", buf |-> "", pos |-> 0]
NoHandles == [out |-> NoFile, err |-> NoFile]

\* BufferedWriter.write: data that fits the buffer stays in it
BufWrite(f, data) ==
    IF Len(f.buf) + Len(data) <= BUFFER_SIZE
    THEN [fobj |-> [f EXCEPT !.buf = f.buf \o data], disk |-> ""]
    ELSE [fobj |-> [f EXCEPT !.buf = ""], disk |-> f.buf \o data]

\* what the child process writes to its stdout and stderr, by how it ends
ChildStdout(o) == IF o = "ok" THEN "done\n" ELSE ""
ChildStderr(o) == IF o = "nonzero" THEN "Traceback\n" ELSE ""

EchoedExceptNarrow(arguments, o) ==
    IF o = "ok" THEN << "[Success] " \o Join(" ", arguments) >>
    ELSE IF o = "nonzero"
    THEN << "[Error] " \o Join(" ", arguments) \o ", see " \o StderrPath(arguments) >>
    ELSE << >>
\* lines 224-241: the bare except catches every failure of check_call
Echoed(arguments, o) ==
    IF o = "ok" THEN << "[Success] " \o Join(" ", arguments) >>
    ELSE << "[Error] " \o Join(" ", arguments) \o ", see " \o StderrPath(arguments) >>

DInit ==
    /\ cpu_count \in 1..MaxCpu
    /\ task_list \in UNION {[1..k -> ArgLists] : k \in 0..MaxJobs}
    /\ pc_main = "submit"
    /\ next_task = 1
    /\ queue = << >>
    /\ phase = [j \in Jobs |-> "pending"]
    /\ worker = [j \in Jobs |-> 0]
    /\ outcome = [j \in Jobs |-> "none"]
    /\ fh = [j \in Jobs |-> NoHandles]
    /\ files = << >>
    /\ console = << >>

\* a pool thread is inside work()
Busy(w) == \E j \in Jobs : worker[j] = w /\ phase[j] # "done"

\* line 244-245: tp.apply_async(work, (arguments,))
Submit ==
    /\ pc_main = "submit"
    /\ next_task <= Len(task_list)
    /\ queue' = Append(queue, next_task)
    /\ phase' = [phase EXCEPT ![next_task] = "queued"]
    /\ next_task' = next_task + 1
    /\ UNCHANGED <<evars, bvars, uvars>>
    /\ UNCHANGED <<cpu_count, task_list, pc_main, worker, outcome, fh, files, console>>

\* line 247: tp.close()
Close ==
    /\ pc_main = "submit"
    /\ next_task > Len(task_list)
    /\ pc_main' = "join"
    /\ UNCHANGED <<evars, bvars, uvars>>
    /\ UNCHANGED <<cpu_count, task_list, next_task, queue, phase, worker, outcome,
                   fh, files, console>>

\* line 248: tp.join() returns once every worker thread has exited, which they
\* do when the closed pool's queue is drained and their task has returned
JoinPool ==
    /\ pc_main = "join"
    /\ queue = << >>
    /\ \A w \in Workers : ~Busy(w)
    /\ pc_main' = "returned"
    /\ UNCHANGED <<evars, bvars, uvars>>
    /\ UNCHANGED <<cpu_count, task_list, next_task, queue, phase, worker, outcome,
                   fh, files, console>>

\* an idle pool thread takes the oldest queued task
Pick(w) ==
    /\ ~Busy(w)
    /\ queue # << >>
    /\ LET j == Head(queue) IN
         /\ worker' = [worker EXCEPT ![j] = w]
         /\ phase' = [phase EXCEPT ![j] = "picked"]
    /\ queue' = Tail(queue)
    /\ UNCHANGED <<evars, bvars, uvars>>
    /\ UNCHANGED <<cpu_count, task_list, pc_main, next_task, outcome, fh, files, console>>

\* lines 217-223: both logs are opened "wb" (created or truncated) and the
\* header is written to each file object
OpenLogs(w) ==
    \E j \in Jobs :
      /\ worker[j] = w /\ phase[j] = "picked"
      /\ LET a == task_list[j]
             o == BufWrite([open |-> TRUE, path |-> StdoutPath(a), buf |-> "", pos |-> 0],
                           Header(a))
             e == BufWrite([open |-> TRUE, path |-> StderrPath(a), buf |-> "", pos |-> 0],
                           Header(a))
         IN
           /\ fh' = [fh EXCEPT ![j] =
                       [out |-> [o.fobj EXCEPT !.pos = Len(o.disk)],
                        err |-> [e.fobj EXCEPT !.pos = Len(e.disk)]]]
           /\ files' = (StdoutPath(a) :> o.disk) @@ (StderrPath(a) :> e.disk) @@ files
      /\ phase' = [phase EXCEPT ![j] = "opened"]
      /\ UNCHANGED <<evars, bvars, uvars>>
      /\ UNCHANGED <<cpu_count, task_list, pc_main, next_task, queue, worker, outcome,
                     console>>

\* line 226: check_call starts the external invocation on the files' descriptors
StartCall(w) ==
    \E j \in Jobs :
      /\ worker[j] = w /\ phase[j] = "opened"
      /\ phase' = [phase EXCEPT ![j] = "running"]
      /\ UNCHANGED <<evars, bvars, uvars>>
      /\ UNCHANGED <<cpu_count, task_list, pc_main, next_task, queue, worker, outcome,
                     fh, files, console>>

\* line 226: check_call raises without a child having run
CallRaises(w) ==
    \E j \in Jobs :
      /\ worker[j] = w /\ phase[j] = "opened"
      /\ phase' = [phase EXCEPT ![j] = "exited"]
      /\ outcome' = [outcome EXCEPT ![j] = "raised"]
      /\ UNCHANGED <<evars, bvars, uvars>>
      /\ UNCHANGED <<cpu_count, task_list, pc_main, next_task, queue, worker,
                     fh, files, console>>

\* the child writes through the inherited descriptors and exits
ChildExit(w) ==
    \E j \in Jobs, o \in {"ok", "nonzero"} :
      /\ worker[j] = w /\ phase[j] = "running"
      /\ phase' = [phase EXCEPT ![j] = "exited"]
      /\ outcome' = [outcome EXCEPT ![j] = o]
      /\ LET f == fh[j] IN
           /\ files' = [files EXCEPT
                          ![f.out.path] = WriteAt(@, f.out.pos, ChildStdout(o)),
                          ![f.err.path] = WriteAt(@, f.err.pos, ChildStderr(o))]
           /\ fh' = [fh EXCEPT ![j].out.pos = @ + Len(ChildStdout(o)),
                               ![j].err.pos = @ + Len(ChildStderr(o))]
      /\ UNCHANGED <<evars, bvars, uvars>>
      /\ UNCHANGED <<cpu_count, task_list, pc_main, next_task, queue, worker, console>>

\* lines 231-241: the [Error] or [Success] line
Report(w) ==
    \E j \in Jobs :
      /\ worker[j] = w /\ phase[j] = "exited"
      /\ console' = console \o Echoed(task_list[j], outcome[j])
      /\ phase' = [phase EXCEPT ![j] = "reported"]
      /\ UNCHANGED <<evars, bvars, uvars>>
      /\ UNCHANGED <<cpu_count, task_list, pc_main, next_task, queue, worker, outcome,
                     fh, files>>

\* end of the with block of line 221: both file objects are flushed and closed
CloseLogs(w) ==
    \E j \in Jobs :
      /\ worker[j] = w /\ phase[j] = "reported"
      /\ LET f == fh[j] IN
           files' = [files EXCEPT
                       ![f.out.path] = WriteAt(@, f.out.pos, f.out.buf),
                       ![f.err.path] = WriteAt(@, f.err.pos, f.err.buf)]
      /\ fh' = [fh EXCEPT ![j] = NoHandles]
      /\ phase' = [phase EXCEPT ![j] = "done"]
      /\ UNCHANGED <<evars, bvars, uvars>>
      /\ UNCHANGED <<cpu_count, task_list, pc_main, next_task, queue, worker, outcome,
                     console>>

DNext ==
    \/ Submit
    \/ Close
    \/ JoinPool
    \/ \E w \in Workers : Pick(w)
    \/ \E w \in Workers : OpenLogs(w)
    \/ \E w \in Workers : StartCall(w)
    \/ \E w \in Workers : CallRaises(w)
    \/ \E w \in Workers : ChildExit(w)
    \/ \E w \in Workers : Report(w)
    \/ \E w \in Workers : CloseLogs(w)

-----------------------------------------------------------------------------
(* Enumerator: src/generate_data.py, generate_* , tasks and the commands *)

\* a Python value: a str, an int or None
PyS(x) == [kind |-> "str", s |-> x, n |-> 0]
PyN(x) == [kind |-> "int", s |-> "", n |-> x]
PyNone == [kind |-> "none", s |-> "", n |-> 0]

Digit(d) == SubSeq("0123456789", d + 1, d + 1)

RECURSIVE IntToStr(_)
\* str(n) of a non-negative int
IntToStr(n) == IF n < 10 THEN Digit(n) ELSE IntToStr(n \div 10) \o Digit(n % 10)

\* str(value), and the {value} of an f-string
PyStr(v) == IF v.kind = "int" THEN IntToStr(v.n) ELSE v.s

RECURSIVE LastSegment(_, _)
\* s.split(sep)[-1] for a one-character sep
LastSegment(s, sep) ==
    IF \E i \in 1..Len(s) : SubSeq(s, i, i) = sep
    THEN LET i == CHOOSE k \in 1..Len(s) : SubSeq(s, k, k) = sep
         IN  LastSegment(SubSeq(s, i + 1, Len(s)), sep)
    ELSE s

RECURSIVE FirstSegment(_, _)
FirstSegment(s, sep) ==
    IF s = "" \/ SubSeq(s, 1, 1) = sep THEN ""
    ELSE SubSeq(s, 1, 1) \o FirstSegment(SubSeq(s, 2, Len(s)), sep)

mname_first(model) == FirstSegment(model, "/")
\* mname = model.split("/")[-1]
mname(model) == LastSegment(model, "/")

models ==
    << "mistralai/Mistral-7B-v0.1", "bigcode/starcoderbase", "bigcode/starcoderbase-1b",
       "bigcode/starcoderbase-7b", "bigcode/starcoder2-7b" >>

\* the axes of each family, in the order itertools.product takes them
Axes(fam) ==
    CASE fam = "krc" ->
           << models,
              << "one-step", "two-step", "three-step", "concatenation" >>,
              << PyN(0), PyN(1), PyN(5) >>,
              << PyN(100) >> >>
      [] fam = "krfix" ->
           << models,
              << "three-step", "concatenation" >>,
              << PyN(5) >>,
              << "calls", "called_by", "calls,called_by" >>,
              << "calls_called_by", "function_names_only" >>,
              << PyN(100), PyN(348) >> >>
      [] fam = "krfix_one_hop" ->
           << models,
              << "three-step" >>,
              << PyN(5) >>,
              << "calls_one_hop", "called_by_one_hop", "calls_one_hop,called_by_one_hop" >>,
              << "calls_called_by", "function_names_only" >>,
              << PyN(100), PyN(348) >> >>

RECURSIVE ProductSize(_)
ProductSize(axes) ==
    IF Len(axes) = 0 THEN 1 ELSE Len(axes[1]) * ProductSize(Tail(axes))

RECURSIVE ProductItem(_, _)
\* the n-th tuple (from 0) of itertools.product(*axes): the last axis runs fastest
ProductItem(axes, n) ==
    IF Len(axes) = 0 THEN << >>
    ELSE LET rest == ProductSize(Tail(axes))
         IN  << axes[1][(n \div rest) + 1] >> \o ProductItem(Tail(axes), n % rest)

num_key_functions_dict(fam, variant) ==
    IF fam = "krc" THEN (IF variant = "one-step" THEN 100 ELSE 20) ELSE 5

max_pos_combs_dict(fam, variant) ==
    IF fam = "krc"
    THEN CASE variant = "one-step" -> PyNone
           [] variant = "two-step" -> PyN(150)
           [] OTHER -> PyN(50)
    ELSE PyN(15)

humaneval_max_length(max_prompt_tokens) ==
    IF max_prompt_tokens >= 4000 THEN 1000 ELSE 500

\* the f-string of the "output" entry
OutputPath(fam, max_prompt_tokens, c) ==
    LET model == c[1]
        variant == c[2]
        distractors == c[3]
        head == "./data/" \o fam \o "/" \o fam \o "_" \o IntToStr(max_prompt_tokens)
                  \o "_" \o variant \o "_" \o mname(model) \o "_" \o PyStr(distractors)
                  \o "_distractors_"
    IN  IF fam = "krc"
        THEN head \o "seed" \o PyStr(c[4]) \o ".json.gz"
        ELSE head \o c[4] \o "_" \o c[5] \o "_seed" \o PyStr(c[6]) \o ".json.gz"

\* the n-th (from 0) pair a generate_* generator yields: the experiment and the
\* configuration dict as its (key, value) items in insertion order
GenerateFamily(fam, max_prompt_tokens, n) ==
    LET c == ProductItem(Axes(fam), n)
        variant == c[2]
        common ==
          << <<"model_name", PyS(c[1])>>,
             <<"variant", PyS(variant)>>,
             <<"return_type", PyS("string")>>,
             <<"return_length", PyN(10)>>,
             <<"function_name", PyS("random")>>,
             <<"num_key_functions", PyN(num_key_functions_dict(fam, variant))>>,
             <<"max_position_combinations", max_pos_combs_dict(fam, variant)>>,
             <<"humaneval_max_length", PyN(humaneval_max_length(max_prompt_tokens))>>,
             <<"max_prompt_tokens", PyN(max_prompt_tokens)>>,
             <<"max_humaneval_snippets", PyN(1000000)>>,
             <<"num_distractors", c[3]>> >>
        graph ==
          IF fam = "krc" THEN << >>
          ELSE << <<"call_graph_comment_type", PyS(c[4])>>,
                  <<"call_graph_template_variant", PyS(c[5])>> >>
        position ==
          IF fam = "krfix_one_hop"
          THEN << <<"call_graph_comment_position", PyS("before")>> >>
          ELSE << >>
        seed == IF fam = "krc" THEN c[4] ELSE c[6]
    IN  [experiment |-> fam,
         config |-> common \o graph \o position
                      \o << <<"seed", seed>>,
                            <<"output", PyS(OutputPath(fam, max_prompt_tokens, c))>> >>]

generate_krc(max_prompt_tokens, n) == GenerateFamily("krc", max_prompt_tokens, n)
generate_krfix(max_prompt_tokens, n) == GenerateFamily("krfix", max_prompt_tokens, n)
generate_krfix_one_hop(max_prompt_tokens, n) == GenerateFamily("krfix_one_hop", max_prompt_tokens, n)

Yielded(fam, max_prompt_tokens, n) ==
    CASE fam = "krc" -> generate_krc(max_prompt_tokens, n)
      [] fam = "krfix" -> generate_krfix(max_prompt_tokens, n)
      [] fam = "krfix_one_hop" -> generate_krfix_one_hop(max_prompt_tokens, n)

RECURSIVE ConfigArgs(_)
\* lines 207-209: "--key", str(value) for every value that is not None
ConfigArgs(items) ==
    IF Len(items) = 0 THEN << >>
    ELSE (IF items[1][2].kind = "none" THEN << >>
          ELSE << "--" \o items[1][1], PyStr(items[1][2]) >>)
         \o ConfigArgs(Tail(items))

\* lines 206-209: the argument list of one (experiment, config) pair
TaskArgs(pair) == << pair.experiment >> \o ConfigArgs(pair.config)

Families == {"krc", "krfix", "krfix_one_hop"}

\* the max_prompt_tokens of the three generate_* calls of a command
PromptTokens == << 2000, 4000, 8000 >>

EIdle ==
    /\ family = ""
    /\ pass = 0
    /\ idx = 0
    /\ result = << >>
    /\ all_tasks = << >>

\* a command starts: all_tasks = [] and the first tasks(generate_*(2000)) call
EInit ==
    /\ family \in Families
    /\ pass = 1
    /\ idx = 0
    /\ result = << >>
    /\ all_tasks = << >>

\* lines 205-211: one iteration of the loop of tasks()
TasksStep ==
    /\ pass \in 1..Len(PromptTokens)
    /\ idx < ProductSize(Axes(family))
    /\ result' = Append(result, TaskArgs(Yielded(family, PromptTokens[pass], idx)))
    /\ idx' = idx + 1
    /\ UNCHANGED <<family, pass, all_tasks>>
    /\ UNCHANGED <<dvars, bvars, uvars>>

\* line 212 and all_tasks += tasks(...): the generator is exhausted
TasksReturn ==
    /\ pass \in 1..Len(PromptTokens)
    /\ idx = ProductSize(Axes(family))
    /\ all_tasks' = all_tasks \o result
    /\ result' = << >>
    /\ idx' = 0
    /\ pass' = pass + 1
    /\ UNCHANGED family
    /\ UNCHANGED <<dvars, bvars, uvars>>

\* run_tasks_in_parallel(all_tasks) is called
Dispatch ==
    /\ pass = Len(PromptTokens) + 1
    /\ pass' = pass + 1
    /\ UNCHANGED <<family, idx, result, all_tasks>>
    /\ UNCHANGED <<dvars, bvars, uvars>>

Dispatched == pass = Len(PromptTokens) + 2

ENext == TasksStep \/ TasksReturn \/ Dispatch

\* no dispatcher run
DIdle ==
    /\ cpu_count = 1
    /\ task_list = << >>
    /\ pc_main = "idle"
    /\ next_task = 1
    /\ queue = << >>
    /\ phase = << >>
    /\ worker = << >>
    /\ outcome = << >>
    /\ fh = << >>
    /\ files = << >>
    /\ console = << >>

-----------------------------------------------------------------------------
(* Task Builder: src/krc.py and src/krfix.py, the synthesizer (lines 27-89,   *)
(* the same text in both files).  A call is modelled whole: its outcomes are *)
(* all the results the random source can lead it to.  st is "ok" (it         *)
(* returned), "raise" (it raised) or "hang" (it retries in uniquify for ever)*)

\* the alphabets of rng.choice, cut to their first characters
\* ("abcdefghijklmnopqrstuvwxyz", "0123456789", "123456789")
Letters == "ab"
Digits == "012"
NonZeroDigits == "12"

Chars(s) == {SubSeq(s, i, i) : i \in 1..Len(s)}

RECURSIVE StringsOver(_, _)
\* every string of n characters of chars ("" when n <= 0)
StringsOver(chars, n) ==
    IF n <= 0 THEN {""}
    ELSE {c \o s : c \in chars, s \in StringsOver(chars, n - 1)}

\* the strings random_string(length) can return
random_string(length) == StringsOver(Chars(Letters), length)

\* the strings random_integer(length) can return
random_integer(length) ==
    IF length <= 0 THEN {""}
    ELSE {c \o s : c \in Chars(NonZeroDigits), s \in StringsOver(Chars(Digits), length - 1)}

uniquify_unchecked(generated, used) ==
    {[st |-> "ok", ret |-> v, used |-> used \cup {v}] : v \in generated}
\* uniquify: the generator runs until it yields a value that is not in
\* used_values, which is added and returned; with no such value it never ends
uniquify(generated, used) ==
    IF generated \subseteq used
    THEN {[st |-> "hang", ret |-> "", used |-> used]}
    ELSE {[st |-> "ok", ret |-> v, used |-> used \cup {v}] : v \in generated \ used}

\* an optional length argument: None, or <<length>>
None == << >>

\* value(length)
value(used, length) ==
    LET len == IF length = None THEN cfg.return_length ELSE length[1] IN
    IF cfg.return_type = "string"
    THEN {[o EXCEPT !.ret = IF o.st = "ok" THEN "\"" \o o.ret \o "\"" ELSE ""] :
             o \in uniquify(random_string(len), used)}
    ELSE IF cfg.return_type = "integer"
    THEN uniquify(random_integer(len), used)
    ELSE {[st |-> "raise", ret |-> "ValueError", used |-> used]}

Generated(fn, length) ==
    IF fn = "random_string" THEN random_string(length) ELSE random_integer(length)

RECURSIVE RandomParts(_, _, _, _)
\* lines 70-78: parts i .. n_parts - 1 of a random name, then the join
RandomParts(used, i, n_parts, parts) ==
    IF i >= n_parts
    THEN {[st |-> "ok", ret |-> Join("_", parts), used |-> used]}
    ELSE LET fns == IF i = 0 THEN {"random_string"}
                    ELSE IF i = 1 THEN {"random_integer"}
                    ELSE {"random_integer", "random_string"}
         IN  UNION { UNION { IF o.st = "ok"
                             THEN RandomParts(o.used, i + 1, n_parts, Append(parts, o.ret))
                             ELSE {o} :
                             o \in uniquify(Generated(fn, cfg.function_name_part_length), used) } :
                     fn \in fns }

FixedCandidate(canonical, index) ==
    IF index = 0 THEN canonical ELSE canonical \o "_" \o IntToStr(index)

RECURSIVE FirstFreeByTwo(_, _, _)
FirstFreeByTwo(used, canonical, index) ==
    IF FixedCandidate(canonical, index) \notin used
    THEN [st |-> "ok", ret |-> FixedCandidate(canonical, index),
          used |-> used \cup {FixedCandidate(canonical, index)}]
    ELSE FirstFreeByTwo(used, canonical, index + 2)

RECURSIVE FirstFree(_, _, _)
\* the loop of the "fixed" scheme, from index on
FirstFree(used, canonical, index) ==
    IF FixedCandidate(canonical, index) \notin used
    THEN [st |-> "ok", ret |-> FixedCandidate(canonical, index),
          used |-> used \cup {FixedCandidate(canonical, index)}]
    ELSE FirstFree(used, canonical, index + 1)

\* function_name(canonical)
function_name(used, canonical) ==
    IF cfg.function_name = "random"
    THEN IF cfg.function_name_min_parts > cfg.function_name_max_parts
         THEN {[st |-> "raise", ret |-> "ValueError", used |-> used]}
         ELSE UNION { RandomParts(used, 0, n_parts, << >>) :
                      n_parts \in cfg.function_name_min_parts..cfg.function_name_max_parts }
    ELSE IF cfg.function_name = "fixed"
    THEN {FirstFree(used, canonical, 0)}
    ELSE {[st |-> "raise", ret |-> "ValueError", used |-> used]}

\* one value() or function_name() call made from state used: the record of
\* the call and the registry it leaves
Invoke(used, step) ==
    LET outs == IF step.op = "value" THEN value(used, step.len)
                ELSE function_name(used, step.arg)
    IN  {[call |-> [op |-> step.op, arg |-> step.arg, len |-> step.len,
                    before |-> used, st |-> o.st, ret |-> o.ret],
          used |-> o.used] : o \in outs}

V(length) == [op |-> "value", arg |-> "", len |-> length]
F(canonical) == [op |-> "function_name", arg |-> canonical, len |-> None]

NoTask == [context |-> << >>, prompt |-> "", expected |-> ""]

Start(used) == [st |-> "ok", used |-> used, calls |-> << >>]

RECURSIVE RunSteps(_, _)
\* the calls of steps made one after the other from run r, up to the first
\* that does not return
RunSteps(r, steps) ==
    IF Len(steps) = 0 \/ r.st # "ok" THEN {r}
    ELSE UNION { RunSteps([st |-> i.call.st, used |-> i.used,
                           calls |-> Append(r.calls, i.call)], Tail(steps)) :
                 i \in Invoke(r.used, Head(steps)) }

\* a shape that puts the registry back when one of its calls raises
ResultRolledBack(r, task) ==
    [st |-> r.st, calls |-> r.calls,
     used |-> IF r.st = "raise" THEN r.calls[1].before ELSE r.used,
     task |-> IF r.st = "ok" THEN task ELSE NoTask]
\* how a shape ends: with the task when every call returned
Result(r, task) ==
    [st |-> r.st, used |-> r.used, calls |-> r.calls,
     task |-> IF r.st = "ok" THEN task ELSE NoTask]

Raised(r) == [st |-> "raise", used |-> r.used, calls |-> r.calls, task |-> NoTask]

\* f"def {name}():\n    return {body}"
Decl(name, body) == "def " \o name \o "():\n    return " \o body

\* f"assert {func_key}() =="
Prompt(func_key) == "assert " \o func_key \o "() =="

\* krc.py lines 95-105
one_step(used) ==
    { LET return_value == r.calls[1].ret
          func_key == r.calls[2].ret
      IN  Result(r, [context |-> << Decl(func_key, return_value) >>,
                     prompt |-> Prompt(func_key),
                     expected |-> " " \o return_value]) :
      r \in RunSteps(Start(used), << V(None), F("key_function") >>) }

\* krc.py lines 107-119
two_step(used) ==
    { LET return_value == r.calls[1].ret
          func_key == r.calls[2].ret
          func_val == r.calls[3].ret
      IN  Result(r, [context |-> << Decl(func_val, return_value),
                                    Decl(func_key, func_val \o "()") >>,
                     prompt |-> Prompt(func_key),
                     expected |-> " " \o return_value]) :
      r \in RunSteps(Start(used),
                     << V(None), F("key_function"), F("value_function") >>) }

ThreeSteps ==
    << V(None), F("key_function"), F("value_function_1"), F("value_function_2") >>

\* krc.py lines 121-135
krc_three_step(used) ==
    { LET return_value == r.calls[1].ret
          func_key == r.calls[2].ret
          func_val_1 == r.calls[3].ret
          func_val_2 == r.calls[4].ret
      IN  Result(r, [context |-> << Decl(func_val_1, return_value),
                                    Decl(func_val_2, func_val_1 \o "()"),
                                    Decl(func_key, func_val_2 \o "()") >>,
                     prompt |-> Prompt(func_key),
                     expected |-> " " \o return_value]) :
      r \in RunSteps(Start(used), ThreeSteps) }

\* s[1:-1]
Inner(s) == SubSeq(s, 2, Len(s) - 1)

ConcatExpectedUnstripped(return_value_1, return_value_2) ==
    " \"" \o return_value_1 \o return_value_2 \o "\""
\* f' "{return_value_1[1:-1] + return_value_2[1:-1]}"'
ConcatExpected(return_value_1, return_value_2) ==
    " \"" \o Inner(return_value_1) \o Inner(return_value_2) \o "\""

ConcatSteps ==
    << V(<< cfg.return_length \div 2 >>), V(<< cfg.return_length \div 2 >>),
       F("key_function"), F("value_function_1"), F("value_function_2") >>

\* krc.py lines 137-155
krc_concatenation(used) ==
    IF cfg.return_type # "string"
    THEN {Raised(Start(used))}
    ELSE { LET return_value_1 == r.calls[1].ret
               return_value_2 == r.calls[2].ret
               func_key == r.calls[3].ret
               func_val_1 == r.calls[4].ret
               func_val_2 == r.calls[5].ret
           IN  Result(r, [context |->
                            << Decl(func_val_1, return_value_1),
                               Decl(func_val_2, return_value_2),
                               Decl(func_key, func_val_1 \o "() + " \o func_val_2 \o "()") >>,
                          prompt |-> Prompt(func_key),
                          expected |-> ConcatExpected(return_value_1, return_value_2)]) :
           r \in RunSteps(Start(used), ConcatSteps) }

\* the return_length of the generated data sets; an instance with it is
\* called once
LongLength == 10

\* sub in s
Contains(s, sub) ==
    \E i \in 1..(Len(s) - Len(sub) + 1) : SubSeq(s, i, i + Len(sub) - 1) = sub

\* call_graph_comment without the final else: an unknown template renders
\* the names only
call_graph_comment_lenient(direction, func_names) ==
    IF cfg.call_graph_template_variant = "calls_called_by" /\ direction = "calls"
    THEN [st |-> "ok", ret |-> "# This function calls " \o Join(" and ", func_names) \o "\n"]
    ELSE IF cfg.call_graph_template_variant = "calls_called_by" /\ direction = "called_by"
    THEN [st |-> "ok", ret |-> "# This function is called by " \o Join(" and ", func_names) \o "\n"]
    ELSE [st |-> "ok", ret |-> "# " \o Join(", ", func_names) \o "\n"]
\* krfix.py lines 91-106
call_graph_comment(direction, func_names) ==
    LET template_variant == cfg.call_graph_template_variant IN
    IF template_variant = "calls_called_by"
    THEN IF direction = "calls"
         THEN [st |-> "ok", ret |-> "# This function calls " \o Join(" and ", func_names) \o "\n"]
         ELSE IF direction = "called_by"
         THEN [st |-> "ok", ret |-> "# This function is called by " \o Join(" and ", func_names) \o "\n"]
         ELSE [st |-> "raise", ret |-> "ValueError"]
    ELSE IF template_variant = "function_names_only"
    THEN [st |-> "ok", ret |-> "# " \o Join(", ", func_names) \o "\n"]
    ELSE [st |-> "raise", ret |-> "ValueError"]

\* a declaration with the comments prepended to it, the last prepended first;
\* the first comment that raises ends the build
Commented(decl, comments) ==
    IF \E i \in 1..Len(comments) : comments[i].st # "ok"
    THEN [st |-> "raise", ret |-> ""]
    ELSE [st |-> "ok", ret |-> Join("", [i \in 1..Len(comments) |->
                                           comments[Len(comments) + 1 - i].ret]) \o decl]

\* the segments when every comment was rendered
Segments(decls) ==
    IF \E i \in 1..Len(decls) : decls[i].st # "ok"
    THEN [st |-> "raise", context |-> << >>]
    ELSE [st |-> "ok", context |-> [i \in 1..Len(decls) |-> decls[i].ret]]

\* the comment blocks of three_step with the calls block as an elif
ThreeStepContextElif(return_value, func_key, func_val_1, func_val_2) ==
    LET by == Contains(cfg.call_graph_comment_type, "called_by")
        cl == ~by /\ Contains(cfg.call_graph_comment_type, "calls")
        by_1 == IF by THEN << call_graph_comment("called_by", << func_val_2, func_key >>) >> ELSE << >>
        by_2 == IF by THEN << call_graph_comment("called_by", << func_key >>) >> ELSE << >>
        cl_key == IF cl THEN << call_graph_comment("calls", << func_val_2, func_val_1 >>) >> ELSE << >>
        cl_2 == IF cl THEN << call_graph_comment("calls", << func_val_1 >>) >> ELSE << >>
    IN  Segments(<< Commented(Decl(func_val_1, return_value), by_1),
                    Commented(Decl(func_val_2, func_val_1 \o "()"), by_2 \o cl_2),
                    Commented(Decl(func_key, func_val_2 \o "()"), cl_key) >>)
\* krfix.py lines 115-139
ThreeStepContext(return_value, func_key, func_val_1, func_val_2) ==
    LET by == Contains(cfg.call_graph_comment_type, "called_by")
        cl == Contains(cfg.call_graph_comment_type, "calls")
        by_1 == IF by THEN << call_graph_comment("called_by", << func_val_2, func_key >>) >> ELSE << >>
        by_2 == IF by THEN << call_graph_comment("called_by", << func_key >>) >> ELSE << >>
        cl_key == IF cl THEN << call_graph_comment("calls", << func_val_2, func_val_1 >>) >> ELSE << >>
        cl_2 == IF cl THEN << call_graph_comment("calls", << func_val_1 >>) >> ELSE << >>
    IN  Segments(<< Commented(Decl(func_val_1, return_value), by_1),
                    Commented(Decl(func_val_2, func_val_1 \o "()"), by_2 \o cl_2),
                    Commented(Decl(func_key, func_val_2 \o "()"), cl_key) >>)

\* krfix.py lines 108-149
krfix_three_step(used) ==
    { IF r.st # "ok" THEN Result(r, NoTask)
      ELSE LET return_value == r.calls[1].ret
               func_key == r.calls[2].ret
               ctx == ThreeStepContext(return_value, func_key, r.calls[3].ret, r.calls[4].ret)
           IN  IF ctx.st # "ok" THEN Raised(r)
               ELSE Result(r, [context |-> ctx.context,
                               prompt |-> Prompt(func_key),
                               expected |-> " " \o return_value]) :
      r \in RunSteps(Start(used), ThreeSteps) }

\* krfix.py lines 162-177
ConcatContext(return_value_1, return_value_2, func_key, func_val_1, func_val_2) ==
    LET by == IF Contains(cfg.call_graph_comment_type, "called_by")
              THEN << call_graph_comment("called_by", << func_key >>) >> ELSE << >>
        cl == IF Contains(cfg.call_graph_comment_type, "calls")
              THEN << call_graph_comment("calls", << func_val_1, func_val_2 >>) >> ELSE << >>
    IN  Segments(<< Commented(Decl(func_val_1, return_value_1), by),
                    Commented(Decl(func_val_2, return_value_2), by),
                    Commented(Decl(func_key, func_val_1 \o "() + " \o func_val_2 \o "()"), cl) >>)

\* krfix.py lines 151-187
krfix_concatenation(used) ==
    IF cfg.return_type # "string"
    THEN {Raised(Start(used))}
    ELSE { IF r.st # "ok" THEN Result(r, NoTask)
           ELSE LET return_value_1 == r.calls[1].ret
                    return_value_2 == r.calls[2].ret
                    func_key == r.calls[3].ret
                    ctx == ConcatContext(return_value_1, return_value_2, func_key,
                                         r.calls[4].ret, r.calls[5].ret)
                IN  IF ctx.st # "ok" THEN Raised(r)
                    ELSE Result(r, [context |-> ctx.context,
                                    prompt |-> Prompt(func_key),
                                    expected |-> ConcatExpected(return_value_1, return_value_2)]) :
           r \in RunSteps(Start(used), ConcatSteps) }

\* build(variant): krc.py lines 157-167, krfix.py lines 189-195
build(used, variant) ==
    IF impl = "krc" /\ variant = "one-step" THEN one_step(used)
    ELSE IF impl = "krc" /\ variant = "two-step" THEN two_step(used)
    ELSE IF variant = "three-step"
    THEN IF impl = "krc" THEN krc_three_step(used) ELSE krfix_three_step(used)
    ELSE IF variant = "concatenation"
    THEN IF impl = "krc" THEN krc_concatenation(used) ELSE krfix_concatenation(used)
    ELSE {Raised(Start(used))}

\* the instance can be called again: no call is still retrying
Callable ==
    /\ impl # ""
    /\ Len(log) < (IF cfg.return_length >= LongLength THEN 1 ELSE MaxCalls)
    /\ IF log = << >> THEN TRUE ELSE log[Len(log)].st # "hang"

\* the caller calls value(length)
CallValue(length) ==
    /\ Callable
    /\ \E i \in Invoke(used_values, V(length)) :
         /\ used_values' = i.used
         /\ log' = Append(log, [op |-> "value", arg |-> "", st |-> i.call.st,
                                calls |-> << i.call >>, task |-> NoTask])
    /\ UNCHANGED <<impl, cfg>>
    /\ UNCHANGED <<dvars, evars, uvars>>

\* the caller calls function_name(canonical)
CallFunctionName(canonical) ==
    /\ Callable
    /\ \E i \in Invoke(used_values, F(canonical)) :
         /\ used_values' = i.used
         /\ log' = Append(log, [op |-> "function_name", arg |-> canonical, st |-> i.call.st,
                                calls |-> << i.call >>, task |-> NoTask])
    /\ UNCHANGED <<impl, cfg>>
    /\ UNCHANGED <<dvars, evars, uvars>>

\* the caller calls build(variant)
CallBuild(variant) ==
    /\ Callable
    /\ \E b \in build(used_values, variant) :
         /\ used_values' = b.used
         /\ log' = Append(log, [op |-> "build", arg |-> variant, st |-> b.st,
                                calls |-> b.calls, task |-> b.task])
    /\ UNCHANGED <<impl, cfg>>
    /\ UNCHANGED <<dvars, evars, uvars>>

Config(rt, rl, fn, lo, hi, pl, ct, tv) ==
    [return_type |-> rt, return_length |-> rl, function_name |-> fn,
     function_name_min_parts |-> lo, function_name_max_parts |-> hi,
     function_name_part_length |-> pl,
     call_graph_comment_type |-> ct, call_graph_template_variant |-> tv]

\* the lengths value() is called with
Lengths == {None, <<0>>, <<1>>, <<2>>}

\* the canonical names function_name() is called with
Canonicals == {"value_function", "value_function_1"}

\* configurations of the instances whose value() and function_name() are called
CallConfigs ==
    {Config("string", 2, "fixed", 1, 1, 1, "", "calls_called_by")}
      \cup {Config("string", 1, "random", p[1], p[2], p[3], "", "calls_called_by") :
              p \in {<<0, 1, 1>>, <<1, 2, 1>>, <<3, 3, 1>>, <<1, 1, 2>>, <<2, 1, 1>>, <<1, 1, 0>>}}

\* the variants build() is called with
Variants == {"one-step", "two-step", "three-step", "concatenation", "four-step"}

CommentTypes ==
    {"", "calls", "called_by", "calls,called_by",
     "calls_one_hop", "called_by_one_hop", "calls_one_hop,called_by_one_hop"}

TemplateVariants == {"calls_called_by", "function_names_only", "names"}

\* (return_type, function_name) of the instances whose build() is called
Schemes ==
    {<<"string", "fixed">>, <<"integer", "fixed">>, <<"float", "fixed">>,
     <<"string", "camel">>, <<"string", "random">>}

\* configurations of the instances whose build() is called
BuildConfigs ==
    {Config(b[1], 1, b[2], 1, 1, 2, ct, tv) :
        b \in Schemes, ct \in CommentTypes, tv \in TemplateVariants}
      \cup {Config("string", rl, "fixed", 1, 1, 1, ct, "function_names_only") :
               rl \in {2, 3, LongLength}, ct \in {"", "calls,called_by"}}

\* TaskBuilder(configuration, rng): lines 21-25
BInit(configs) ==
    /\ impl \in {"krc", "krfix"}
    /\ cfg \in configs
    /\ used_values = {}
    /\ log = << >>

-----------------------------------------------------------------------------
(* uniquify, statement by statement: krc.py and krfix.py lines 41-47 *)

\* the lengths the generators are given
UniquifyLengths == {0, 1}

Generators == {"random_string", "random_integer"}

\* every value a generator can return
UniquifyValues ==
    UNION {Generated(fn, length) : fn \in Generators, length \in UniquifyLengths}

IsNewAlways(x, used) == TRUE
\* line 45: v not in self.used_values
IsNew(x, used) == x \notin used

\* self.uniquify(fn, length=length) is called
UniquifyEnter(fn, length) ==
    /\ impl # ""
    /\ pc_uniquify \in {"", "returned"}
    /\ pc_uniquify' = "generate"
    /\ generator' = fn
    /\ kwargs' = length
    /\ candidate' = ""
    /\ entry_values' = used_values
    /\ UNCHANGED <<dvars, evars, bvars>>

\* line 44: v = generator(**kwargs), the generator returning x
Generate(x) ==
    /\ pc_uniquify = "generate"
    /\ x \in Generated(generator, kwargs)
    /\ candidate' = x
    /\ pc_uniquify' = "test"
    /\ UNCHANGED <<generator, kwargs, entry_values>>
    /\ UNCHANGED <<dvars, evars, bvars>>

\* lines 45-47: a new value is added and returned, any other sends the loop
\* round again
Test ==
    /\ pc_uniquify = "test"
    /\ IF IsNew(candidate, used_values)
       THEN /\ used_values' = used_values \cup {candidate}
            /\ pc_uniquify' = "returned"
       ELSE /\ used_values' = used_values
            /\ pc_uniquify' = "generate"
    /\ UNCHANGED <<generator, kwargs, candidate, entry_values>>
    /\ UNCHANGED <<impl, cfg, log>>
    /\ UNCHANGED <<dvars, evars>>

-----------------------------------------------------------------------------
(* Specifications *)

\* no Task Builder instance
BIdle ==
    /\ impl = ""
    /\ cfg = << >>
    /\ used_values = {}
    /\ log = << >>

\* no uniquify call followed statement by statement
UIdle ==
    /\ pc_uniquify = ""
    /\ generator = ""
    /\ kwargs = 0
    /\ candidate = ""
    /\ entry_values = {}

\* the dispatcher: one call of run_tasks_in_parallel
Init == DInit /\ EIdle /\ BIdle /\ UIdle
Next == DNext
Spec == Init /\ [][Next]_vars

\* the enumerator: one run of a family command up to its dispatch
EnumInit == EInit /\ DIdle /\ BIdle /\ UIdle
EnumNext == ENext
EnumSpec == EnumInit /\ [][EnumNext]_vars

\* one instance whose value() and function_name() are called in any order
CallInit == BInit(CallConfigs) /\ DIdle /\ EIdle /\ UIdle
CallNext ==
    \/ \E length \in Lengths : CallValue(length)
    \/ \E canonical \in Canonicals : CallFunctionName(canonical)
CallSpec == CallInit /\ [][CallNext]_vars

\* one instance whose build() is called with any variants
BuildInit == BInit(BuildConfigs) /\ DIdle /\ EIdle /\ UIdle
BuildNext == \E variant \in Variants : CallBuild(variant)
BuildSpec == BuildInit /\ [][BuildNext]_vars

\* one instance whose uniquify is called again and again, each call followed
\* through its loop; the random generator returns each of its values again
\* and again while the loop keeps asking
UniqInit ==
    /\ BInit({Config("string", 1, "fixed", 1, 1, 1, "", "calls_called_by")})
    /\ DIdle /\ EIdle /\ UIdle
UniqNext ==
    \/ \E fn \in Generators, length \in UniquifyLengths : UniquifyEnter(fn, length)
    \/ \E x \in UniquifyValues : Generate(x)
    \/ Test
UniqSpec ==
    /\ UniqInit
    /\ [][UniqNext]_vars
    /\ WF_vars(Test)
    /\ \A x \in UniquifyValues : SF_vars(Generate(x))

-----------------------------------------------------------------------------
(* Claims *)

Count(seq, x) == Cardinality({i \in 1..Len(seq) : seq[i] = x})

Failed(j) == outcome[j] \in {"nonzero", "raised"}

ErrorLineOf(a) ==
    "[Error] " \o Join(" ", a) \o ", see ./logs/" \o Sha1Hex(JsonDumps(a)) \o ".stderr"
SuccessLineOf(a) == "[Success] " \o Join(" ", a)

\* C1: when run_tasks_in_parallel returns, every job has run to completion and
\* has been reported exactly once: the console holds one line per job, an
\* [Error] line for each job whose invocation exited non-zero or raised and a
\* [Success] line for each other job, whatever the other jobs did.
C1_EveryJobReportedOnce ==
    pc_main = "returned" =>
      /\ \A j \in Jobs : phase[j] = "done" /\ outcome[j] # "none"
      /\ Len(console) = Len(task_list)
      /\ \A a \in {task_list[j] : j \in Jobs} :
           /\ Count(console, ErrorLineOf(a))
                = Cardinality({j \in Jobs : task_list[j] = a /\ Failed(j)})
           /\ Count(console, SuccessLineOf(a))
                = Cardinality({j \in Jobs : task_list[j] = a /\ ~Failed(j)})

C1_Witness ==
    /\ pc_main = "returned"
    /\ \E j, k \in Jobs : outcome[j] = "raised" /\ outcome[k] = "ok"

Running == {j \in Jobs : phase[j] = "running"}
InWorker == {j \in Jobs : phase[j] \in {"picked", "opened", "running", "exited", "reported"}}

\* C2: at most min(cpu_count, 16) external invocations are in progress at any
\* time, and a job, once a worker has picked it up, stays in that worker, which
\* runs nothing else until the job is done.
C2_BoundedConcurrency ==
    /\ [](/\ Cardinality(Running) <= (IF cpu_count < 16 THEN cpu_count ELSE 16)
          /\ \A j \in InWorker : worker[j] # 0
          /\ \A j, k \in InWorker : j # k => worker[j] # worker[k])
    /\ [][\A j \in Jobs : worker[j] # 0 => worker'[j] = worker[j]]_vars

C2_Witness ==
    /\ Cardinality(Running) = cpu_count
    /\ queue # << >>

\* C9: when a job's external invocation starts, both of its log files exist and
\* hold the echoed argument list followed by a blank line, and both files are
\* present when the dispatcher returns.
C9_LogsPrepopulated ==
    /\ \A j \in Running :
         /\ StdoutPath(task_list[j]) \in DOMAIN files
         /\ StderrPath(task_list[j]) \in DOMAIN files
         /\ StartsWith(files[StdoutPath(task_list[j])], Header(task_list[j]))
         /\ StartsWith(files[StderrPath(task_list[j])], Header(task_list[j]))
    /\ pc_main = "returned" =>
         \A j \in Jobs : /\ StdoutPath(task_list[j]) \in DOMAIN files
                         /\ StderrPath(task_list[j]) \in DOMAIN files

\* the part of C9 that the code does keep: the files exist from the moment
\* they are opened on
C9_LogsPresent ==
    \A j \in Jobs :
      phase[j] \in {"opened", "running", "exited", "reported", "done"} =>
        /\ StdoutPath(task_list[j]) \in DOMAIN files
        /\ StderrPath(task_list[j]) \in DOMAIN files

RECURSIVE ArgOf(_, _)
\* the value that follows flag in an argument list ("" when the flag is absent)
ArgOf(args, flag) ==
    IF Len(args) < 2 THEN ""
    ELSE IF args[1] = flag THEN args[2]
    ELSE ArgOf(Tail(args), flag)

AxisValues(args) ==
    [f \in {"--model_name", "--variant", "--num_distractors", "--seed",
            "--call_graph_comment_type", "--call_graph_template_variant",
            "--max_prompt_tokens"} |-> ArgOf(args, f)]

\* C8: of the jobs one family command hands to the dispatcher, any two that
\* differ in an axis value have different --output paths.
C8_DistinctOutputPaths ==
    Dispatched =>
      \A i, j \in 1..Len(all_tasks) :
        (i < j /\ AxisValues(all_tasks[i]) # AxisValues(all_tasks[j]))
          => ArgOf(all_tasks[i], "--output") # ArgOf(all_tasks[j], "--output")

C8_Witness ==
    /\ Dispatched
    /\ family = "krfix"
    /\ Len(all_tasks) = 360
    /\ \E i, j \in 1..Len(all_tasks) :
         /\ ArgOf(all_tasks[i], "--max_prompt_tokens") # ArgOf(all_tasks[j], "--max_prompt_tokens")
         /\ ArgOf(all_tasks[i], "--model_name") = ArgOf(all_tasks[j], "--model_name")
         /\ ArgOf(all_tasks[i], "--output") = "./data/krfix/krfix_2000_three-step_Mistral-7B-v0.1_5_distractors_calls_calls_called_by_seed100.json.gz"

RECURSIVE CallsOf(_)
\* every value() and function_name() call the logged calls made, in order
CallsOf(entries) ==
    IF Len(entries) = 0 THEN << >> ELSE entries[1].calls \o CallsOf(Tail(entries))

CallsMade == CallsOf(log)

\* the calls of op that returned
Returned(op) == {i \in 1..Len(CallsMade) : CallsMade[i].op = op /\ CallsMade[i].st = "ok"}

LengthAsked(c) == IF c.len = << >> THEN cfg.return_length ELSE c.len[1]

LowercaseLetters == Chars("abcdefghijklmnopqrstuvwxyz")

IsQuotedLetters(s, n) ==
    /\ Len(s) = n + 2
    /\ SubSeq(s, 1, 1) = "\""
    /\ SubSeq(s, n + 2, n + 2) = "\""
    /\ \A k \in 2..(n + 1) : SubSeq(s, k, k) \in LowercaseLetters

\* C3: with return_type "string", every value(length=L) that returns gives a
\* double quote, L lowercase letters and a double quote, and no two value()
\* calls of the instance return the same string.
C3_ValuesQuotedAndDistinct ==
    (impl # "" /\ cfg.return_type = "string") =>
      \A i \in Returned("value") :
        /\ IsQuotedLetters(CallsMade[i].ret, LengthAsked(CallsMade[i]))
        /\ \A j \in Returned("value") : i # j => CallsMade[i].ret # CallsMade[j].ret

C3_Witness ==
    /\ impl # "" /\ cfg.return_type = "string"
    /\ \E i, k \in Returned("value"), j \in Returned("function_name") :
         /\ i < j /\ j < k
         /\ LengthAsked(CallsMade[i]) = 2
         /\ LengthAsked(CallsMade[k]) = 2

\* C4: with function_name "random", the identifiers function_name() returns
\* are pairwise distinct.
C4_RandomNamesDistinct ==
    (impl # "" /\ cfg.function_name = "random") =>
      \A i, j \in Returned("function_name") :
        i # j => CallsMade[i].ret # CallsMade[j].ret

\* what the code does keep of C4: names of at least one part are distinct
C4_RandomNamesDistinctWithParts ==
    (impl # "" /\ cfg.function_name = "random" /\ cfg.function_name_min_parts >= 1) =>
      \A i, j \in Returned("function_name") :
        i # j => CallsMade[i].ret # CallsMade[j].ret

Suffixed(canonical, k) ==
    IF k = 0 THEN canonical ELSE canonical \o "_" \o IntToStr(k)

\* the requests for canonical that returned
Requests(canonical) ==
    {i \in Returned("function_name") : CallsMade[i].arg = canonical}

\* j is the request for the same name that follows request i
NextRequest(i, j) ==
    /\ i < j
    /\ CallsMade[j].arg = CallsMade[i].arg
    /\ \A m \in Requests(CallsMade[i].arg) : ~(i < m /\ m < j)

\* C5 as stated: with function_name "fixed", the request that finds C free
\* returns C and the next request for C returns C_1, whatever calls are made
\* before or between them.
C5_SecondRequestReturnsC1 ==
    (impl # "" /\ cfg.function_name = "fixed") =>
      \A i, j \in Returned("function_name") :
        (NextRequest(i, j) /\ CallsMade[i].ret = CallsMade[i].arg)
          => CallsMade[j].ret = CallsMade[j].arg \o "_1"

\* C5 as amended: every request for C returns the first of C, C_1, C_2, ...
\* that is not in the registry; so the request after the one that returned C
\* returns C_1 exactly when C_1 is not yet in the registry, that is when no
\* earlier function_name() call of the instance has returned C_1.
C5_FirstFreeSuffix ==
    (impl # "" /\ cfg.function_name = "fixed") =>
      /\ \A i \in Returned("function_name") :
           LET c == CallsMade[i] IN
             \E k \in 0..Cardinality(c.before) :
               /\ c.ret = Suffixed(c.arg, k)
               /\ c.ret \notin c.before
               /\ \A m \in 0..(k - 1) : Suffixed(c.arg, m) \in c.before
      /\ \A i, j \in Returned("function_name") :
           (NextRequest(i, j) /\ CallsMade[i].ret = CallsMade[i].arg) =>
             /\ (CallsMade[j].ret = CallsMade[j].arg \o "_1")
                  <=> (CallsMade[j].arg \o "_1") \notin CallsMade[j].before
             /\ (CallsMade[j].ret = CallsMade[j].arg \o "_1")
                  <=> \A m \in Returned("function_name") :
                        m < j => CallsMade[m].ret # CallsMade[j].arg \o "_1"

C5_Witness ==
    /\ impl # "" /\ cfg.function_name = "fixed"
    /\ \E i, j \in Returned("function_name") :
         /\ NextRequest(i, j)
         /\ j > i + 1
         /\ CallsMade[i].ret = CallsMade[i].arg
         /\ CallsMade[j].ret = CallsMade[j].arg \o "_1"


\* the build() calls made so far
Builds == {i \in 1..Len(log) : log[i].op = "build"}

\* the build() calls of variant that returned a Task Result
ReturnedBuilds(variant) ==
    {i \in Builds : log[i].arg = variant /\ log[i].st = "ok"}

\* C6: for a concatenation build with return_type "string" and return_length
\* R that returns, the expected output is one space and then a single
\* double-quoted string: the floor(R/2) letters of the first half-value, then
\* those of the second, no quote in between; for R = 10 the quoted string has
\* 12 characters and the expected output, with its leading space, 13.
C6_ExpectedIsSpaceAndOneQuotedString ==
    \A i \in ReturnedBuilds("concatenation") :
        LET e == log[i].task.expected
            h == cfg.return_length \div 2
            v1 == log[i].calls[1].ret
            v2 == log[i].calls[2].ret
        IN  /\ cfg.return_type = "string"
            /\ IsQuotedLetters(v1, h)
            /\ IsQuotedLetters(v2, h)
            /\ SubSeq(e, 1, 1) = " "
            /\ IsQuotedLetters(SubSeq(e, 2, Len(e)), 2 * h)
            /\ SubSeq(e, 3, 2 + h) = SubSeq(v1, 2, h + 1)
            /\ SubSeq(e, 3 + h, 2 + 2 * h) = SubSeq(v2, 2, h + 1)
            /\ (cfg.return_length = 10) => (Len(SubSeq(e, 2, Len(e))) = 12 /\ Len(e) = 13)

\* a concatenation build with return_length 10 has returned
C6_Witness ==
    \E i \in ReturnedBuilds("concatenation") :
        /\ cfg.return_length = 10
        /\ log[i].calls[1].ret # log[i].calls[2].ret

\* C6 as stated: the expected output itself is the quoted string, of length
\* 12 for R = 10.
C6_ExpectedIsOneQuotedString ==
    \A i \in ReturnedBuilds("concatenation") :
        LET e == log[i].task.expected
            h == cfg.return_length \div 2
        IN  /\ IsQuotedLetters(e, 2 * h)
            /\ SubSeq(e, 2, h + 1) = SubSeq(log[i].calls[1].ret, 2, h + 1)
            /\ SubSeq(e, 2 + h, 2 * h + 1) = SubSeq(log[i].calls[2].ret, 2, h + 1)
            /\ (cfg.return_length = 10) => (Len(e) = 12)

InvalidReturnType == cfg.return_type \notin {"string", "integer"}

InvalidScheme == cfg.function_name \notin {"fixed", "random"}

InvalidVariant(variant) ==
    IF impl = "krc"
    THEN variant \notin {"one-step", "two-step", "three-step", "concatenation"}
    ELSE variant \notin {"three-step", "concatenation"}

InvalidTemplate ==
    cfg.call_graph_template_variant \notin {"calls_called_by", "function_names_only"}

ConcatenationOfNonString(variant) ==
    variant = "concatenation" /\ cfg.return_type # "string"

\* the build renders a call-graph comment
Renders(variant) ==
    /\ impl = "krfix"
    /\ variant \in {"three-step", "concatenation"}
    /\ \/ Contains(cfg.call_graph_comment_type, "calls")
       \/ Contains(cfg.call_graph_comment_type, "called_by")

\* the call never ends: its last request finds no unused value
NeverFound(e) ==
    /\ e.st = "hang"
    /\ e.calls # << >>
    /\ e.calls[Len(e.calls)].st = "hang"

ValueNeverFound(e) == NeverFound(e) /\ e.calls[Len(e.calls)].op = "value"

\* C7: a build() call returns no Task Result and raises during the call when
\* the return_type is invalid, the variant is invalid, or concatenation is
\* asked with a non-string return_type. With an invalid function_name scheme
\* it returns no Task Result either: it raises, unless a value() request made
\* before the first name never finds an unused value. An invalid
\* call_graph_template_variant makes the call raise only where a comment is
\* rendered (krfix, comment type containing "calls" or "called_by"), and then
\* after the value and the names were drawn, unless drawing them never ends;
\* elsewhere the call returns a Task Result as with a valid template.
C7_FaultsNeverReturn ==
    \A i \in Builds :
        LET e == log[i]
            v == e.arg
            early == InvalidVariant(v) \/ ConcatenationOfNonString(v)
            returns == /\ ~InvalidReturnType
                       /\ ~InvalidScheme
                       /\ ~early
                       /\ ~(InvalidTemplate /\ Renders(v))
                       /\ \A k \in 1..Len(e.calls) : e.calls[k].st = "ok"
        IN  /\ (e.st # "ok") => (e.task = NoTask)
            /\ (InvalidReturnType \/ early) => (e.st = "raise")
            /\ early => (e.calls = << >>)
            /\ InvalidScheme => (e.st = "raise" \/ ValueNeverFound(e))
            /\ (InvalidTemplate /\ Renders(v)) => (e.st = "raise" \/ NeverFound(e))
            /\ (InvalidTemplate /\ returns) => (e.st = "ok" /\ e.task # NoTask)

\* a krfix build with an invalid template has raised at its first comment,
\* after its value and names were drawn
C7_Witness ==
    \E i \in Builds :
        /\ InvalidTemplate
        /\ Renders(log[i].arg)
        /\ log[i].st = "raise"
        /\ log[i].calls # << >>
        /\ \A k \in 1..Len(log[i].calls) : log[i].calls[k].st = "ok"

\* C7 as stated: each of the five faults makes every build() call raise.
C7_FaultsAlwaysRaise ==
    \A i \in Builds :
        LET fault == \/ InvalidReturnType
                     \/ InvalidScheme
                     \/ InvalidVariant(log[i].arg)
                     \/ InvalidTemplate
                     \/ ConcatenationOfNonString(log[i].arg)
        IN  fault => (log[i].st = "raise" /\ log[i].task = NoTask)

RECURSIVE SplitLines(_)
\* s.split("\n")
SplitLines(s) ==
    IF ~Contains(s, "\n") THEN << s >>
    ELSE LET k == CHOOSE i \in 1..Len(s) :
                    /\ SubSeq(s, i, i) = "\n"
                    /\ \A j \in 1..(i - 1) : SubSeq(s, j, j) # "\n"
         IN  << SubSeq(s, 1, k - 1) >> \o SplitLines(SubSeq(s, k + 1, Len(s)))

\* the lines of a context segment before its def line
LinesBeforeDef(segment) ==
    LET lines == SplitLines(segment)
        d == CHOOSE i \in 1..Len(lines) :
                /\ StartsWith(lines[i], "def ")
                /\ \A j \in 1..(i - 1) : ~StartsWith(lines[j], "def ")
    IN  SubSeq(lines, 1, d - 1)

\* the comment line of a direction under the configured template
CommentLine(direction, names) ==
    IF cfg.call_graph_template_variant = "function_names_only"
    THEN "# " \o Join(", ", names)
    ELSE IF direction = "calls"
    THEN "# This function calls " \o Join(" and ", names)
    ELSE "# This function is called by " \o Join(" and ", names)

\* C10: in a krfix three-step build that returns, the segment of the innermost
\* value function has, before its def line, one called_by comment iff the
\* comment type contains "called_by" and nothing else; the key function's one
\* calls comment iff it contains "calls" and nothing else; the middle
\* function's one comment per contained direction, calls first. With
\* "calls,called_by" and "function_names_only" the middle function has
\* exactly two lines, each "# <names>".
C10_ThreeStepCommentLines ==
    impl = "krfix" =>
    \A i \in ReturnedBuilds("three-step") :
        LET ctx == log[i].task.context
            func_key == log[i].calls[2].ret
            func_val_1 == log[i].calls[3].ret
            func_val_2 == log[i].calls[4].ret
            by == Contains(cfg.call_graph_comment_type, "called_by")
            cl == Contains(cfg.call_graph_comment_type, "calls")
        IN  /\ Len(ctx) = 3
            /\ LinesBeforeDef(ctx[1]) =
                 IF by THEN << CommentLine("called_by", << func_val_2, func_key >>) >>
                 ELSE << >>
            /\ LinesBeforeDef(ctx[3]) =
                 IF cl THEN << CommentLine("calls", << func_val_2, func_val_1 >>) >>
                 ELSE << >>
            /\ LinesBeforeDef(ctx[2]) =
                 (IF cl THEN << CommentLine("calls", << func_val_1 >>) >> ELSE << >>)
                   \o (IF by THEN << CommentLine("called_by", << func_key >>) >> ELSE << >>)
            /\ (/\ cfg.call_graph_comment_type = "calls,called_by"
                /\ cfg.call_graph_template_variant = "function_names_only")
                  => (/\ Len(LinesBeforeDef(ctx[2])) = 2
                      /\ LinesBeforeDef(ctx[2]) = << "# " \o func_val_1, "# " \o func_key >>
                      /\ StartsWith(ctx[2], "# " \o func_val_1 \o "\n# " \o func_key \o "\ndef "))

\* a krfix three-step build with both directions and names-only comments has
\* returned
C10_Witness ==
    /\ impl = "krfix"
    /\ cfg.call_graph_comment_type = "calls,called_by"
    /\ cfg.call_graph_template_variant = "function_names_only"
    /\ \E i \in ReturnedBuilds("three-step") :
         Len(LinesBeforeDef(log[i].task.context[2])) = 2


\* a uniquify call is in its loop
InLoop == pc_uniquify \in {"generate", "test"}

\* the generator of the call can return a value that is not registered
CanYieldNew == Generated(generator, kwargs) \ used_values # {}

Exhausted == InLoop /\ ~CanYieldNew

\* what holds of a uniquify call at every moment
UniquifySafe ==
    /\ InLoop => used_values = entry_values
    /\ pc_uniquify = "returned" =>
         /\ candidate \in Generated(generator, kwargs)
         /\ candidate \notin entry_values
         /\ used_values = entry_values \cup {candidate}
         /\ [st |-> "ok", ret |-> candidate, used |-> used_values]
              \in uniquify(Generated(generator, kwargs), entry_values)
    /\ Exhausted =>
         uniquify(Generated(generator, kwargs), entry_values)
           = {[st |-> "hang", ret |-> "", used |-> entry_values]}

\* C11: a uniquify call returns only a value that was not in the registry
\* when it started and adds it; its loop has no cap: with the generator
\* returning each of its values again and again, a call whose generator can
\* return an unregistered value eventually returns, and a call whose generator
\* has none left (the second length-0 string) goes round the loop forever,
\* never returning and leaving the registry as it was.
C11_UniquifyReturnsIffNewValueExists ==
    /\ []UniquifySafe
    /\ (InLoop /\ CanYieldNew) ~> (pc_uniquify = "returned")
    /\ [](Exhausted => [](Exhausted /\ used_values = entry_values))
    /\ (Exhausted /\ pc_uniquify = "generate") ~> (Exhausted /\ pc_uniquify = "test")
    /\ (Exhausted /\ pc_uniquify = "test") ~> (Exhausted /\ pc_uniquify = "generate")

\* a call has returned a new value although its generator could also return
\* registered ones
C11_Witness ==
    /\ pc_uniquify = "returned"
    /\ Generated(generator, kwargs) \cap entry_values # {}
    /\ candidate \notin entry_values


\* the step is a build() call; its record is the last of log'
BuildStep == Len(log') = Len(log) + 1 /\ log'[Len(log')].op = "build"

CompleteTask(task) ==
    /\ Len(task.context) >= 1
    /\ \A k \in 1..Len(task.context) : Contains(task.context[k], "def ")
    /\ StartsWith(task.prompt, "assert ")
    /\ Len(task.expected) >= 1

\* what the calls of a build that returned have registered
Drawn(e) ==
    {IF e.calls[k].op = "value" /\ cfg.return_type = "string"
     THEN Inner(e.calls[k].ret) ELSE e.calls[k].ret :
       k \in {j \in 1..Len(e.calls) : e.calls[j].st = "ok"}}

\* C12: a build() call that returns hands over a complete Task Result and may
\* have grown the registry; one that raises hands over nothing. The registry
\* is as before the call when the raise comes before anything is drawn
\* (invalid return_type, invalid variant, concatenation of a non-string); a
\* raise for an invalid function_name scheme leaves the value(s) drawn by
\* value() registered, and a raise for an invalid template leaves the value
\* and all the names registered.
C12_RaiseKeepsWhatWasDrawn ==
    [][BuildStep =>
         LET e == log'[Len(log')]
             v == e.arg
             early == InvalidReturnType \/ InvalidVariant(v) \/ ConcatenationOfNonString(v)
         IN  /\ (e.st = "ok") => (CompleteTask(e.task) /\ used_values \subseteq used_values')
             /\ (e.st # "ok") => (e.task = NoTask)
             /\ used_values' = used_values \cup Drawn(e)
             /\ (e.st = "raise" /\ early) => (used_values' = used_values)
             /\ (e.st = "raise" /\ ~early /\ InvalidScheme)
                   => (/\ e.calls[1].op = "value" /\ e.calls[1].st = "ok"
                       /\ Inner(e.calls[1].ret) \in used_values' \ used_values)
             /\ (e.st = "raise" /\ ~early /\ ~InvalidScheme /\ InvalidTemplate /\ Renders(v))
                   => (/\ \A k \in 1..Len(e.calls) : e.calls[k].st = "ok"
                       /\ Cardinality(used_values' \ used_values) = Len(e.calls))
    ]_vars

\* the first build of an instance with an invalid function_name scheme has
\* raised and the registry holds the value it drew
C12_Witness ==
    /\ Len(log) = 1
    /\ log[1].op = "build"
    /\ log[1].st = "raise"
    /\ InvalidScheme
    /\ used_values # {}

\* C12 as stated: a build() call that raises leaves the registry as it was.
C12_RaiseLeavesRegistry ==
    [][BuildStep =>
         LET e == log'[Len(log')]
         IN  /\ (e.st = "ok") => CompleteTask(e.task)
             /\ (e.st = "raise") => (e.task = NoTask /\ used_values' = used_values)
    ]_vars

=============================================================================
